---------------------------- MODULE Spec2Model ----------------------------
(***************************************************************************)
(* A model of plecost/data.py: the option normaliser (PlecostOptions), the *)
(* versioned entities (_PlecostBase, PlecostWordPressInfo,                 *)
(* PlecostPluginInfo) with their version comparison, and the results       *)
(* aggregator (PlecostResults).                                            *)
(*                                                                         *)
(* Python values are tagged records [t |-> type, s |-> payload].  A str    *)
(* that the code looks into (a version, a target) is a sequence of         *)
(* one-character strings, so that lower(), split(), startswith() and int() *)
(* are computed character by character.                                    *)
(***************************************************************************)
EXTENDS Integers, Sequences, FiniteSets, TLC

VARIABLES
    ver1, ver2, vop, vout,          \* versioned entities: the two versions, the call made, its outcome
    kwargs, wordlists, existing, oout,   \* PlecostOptions: raw options, environment, outcome
    lists, res, op                  \* PlecostResults: list objects, the result object, last operation

vars == <<ver1, ver2, vop, vout, kwargs, wordlists, existing, oout, lists, res, op>>

versionVars == <<ver1, ver2, vop, vout>>
optionVars  == <<kwargs, wordlists, existing, oout>>
resultVars  == <<lists, res, op>>

---------------------------------------------------------------------------
(* Python values *)

None == [t |-> "NoneType", s |-> <<>>]
PyStr(s) == [t |-> "str", s |-> s]
PyInt(s) == [t |-> "int", s |-> s]

isinstance_basestring(v) == v.t = "str"

---------------------------------------------------------------------------
(* str operations used by the code, on sequences of characters *)

Digits == <<"0", "1", "2", "3", "4", "5", "6", "7", "8", "9">>

IsDigit(c) == \E i \in 1..Len(Digits) : Digits[i] = c

DigitVal(c) == (CHOOSE i \in 1..Len(Digits) : Digits[i] = c) - 1

\* str.lower(), for the letters the model's inputs use
lower_char(c) ==
    CASE c = "T" -> "t"
      [] c = "R" -> "r"
      [] c = "U" -> "u"
      [] c = "N" -> "n"
      [] c = "K" -> "k"
      [] OTHER -> c

lower(s) == [i \in 1..Len(s) |-> lower_char(s[i])]

\* str.split(sep) with a one-character separator: n separators give n+1 fields,
\* empty fields included
RECURSIVE split(_, _)
split(s, sep) ==
    IF \A i \in 1..Len(s) : s[i] # sep
    THEN <<s>>
    ELSE LET i == CHOOSE k \in 1..Len(s) :
                    s[k] = sep /\ \A j \in 1..(k - 1) : s[j] # sep
         IN  <<SubSeq(s, 1, i - 1)>> \o split(SubSeq(s, i + 1, Len(s)), sep)

\* str.strip() of blanks
RECURSIVE strip(_)
strip(s) ==
    IF Len(s) > 0 /\ s[1] = " " THEN strip(Tail(s))
    ELSE IF Len(s) > 0 /\ s[Len(s)] = " " THEN strip(SubSeq(s, 1, Len(s) - 1))
    ELSE s

RECURSIVE digits_value(_)
digits_value(s) ==
    IF Len(s) = 0 THEN 0
    ELSE 10 * digits_value(SubSeq(s, 1, Len(s) - 1)) + DigitVal(s[Len(s)])

\* a conversion that stops at the first character that is no digit, as C's
\* atoi does, instead of rejecting the string
int_prefix(y) ==
    LET t == strip(y)
        n == Cardinality({k \in 1..Len(t) : \A j \in 1..k : IsDigit(t[j])})
    IN  IF n > 0
        THEN [exc |-> "none", val |-> digits_value(SubSeq(t, 1, n))]
        ELSE [exc |-> "ValueError", val |-> 0]

\* int(str): blanks stripped, an optional sign, then one or more decimal digits;
\* anything else raises ValueError
int(y) ==
    LET t    == strip(y)
        sgn  == Len(t) > 0 /\ t[1] \in {"+", "-"}
        body == IF sgn THEN Tail(t) ELSE t
    IN  IF Len(body) > 0 /\ \A i \in 1..Len(body) : IsDigit(body[i])
        THEN [exc |-> "none",
              val |-> IF sgn /\ t[1] = "-" THEN 0 - digits_value(body)
                      ELSE digits_value(body)]
        ELSE [exc |-> "ValueError", val |-> 0]

\* str.startswith(prefix)
startswith(s, p) == Len(s) >= Len(p) /\ SubSeq(s, 1, Len(p)) = p

---------------------------------------------------------------------------
(* _PlecostBase.__version_cmp *)

TupleWidth == 4

Padding == <<".", "0", ".", "0", ".", "0", ".", "0">>

\* a slice of three components, as in the docstrings' x.x.x
tup_three(x) ==
    LET fields == split(x \o Padding, ".")
        ints   == [i \in 1..Len(fields) |-> int(fields[i])]
    IN  IF \E i \in 1..Len(ints) : ints[i].exc # "none"
        THEN [exc |-> "ValueError", val |-> <<>>]
        ELSE [exc |-> "none",
              val |-> [i \in 1..(TupleWidth - 1) |-> ints[i].val]]

\* tup = lambda x: [int(y) for y in (x+'.0.0.0.0').split('.')][:4]
\* every field is converted before the slice is taken
tup(x) ==
    LET fields == split(x \o Padding, ".")
        ints   == [i \in 1..Len(fields) |-> int(fields[i])]
    IN  IF \E i \in 1..Len(ints) : ints[i].exc # "none"
        THEN [exc |-> "ValueError", val |-> <<>>]
        ELSE [exc |-> "none",
              val |-> [i \in 1..TupleWidth |-> ints[i].val]]

\* a comparison that never answers "equal"
RECURSIVE cmp_le(_, _)
cmp_le(a, b) ==
    IF Len(a) = 0 /\ Len(b) = 0 THEN -1
    ELSE IF Len(a) = 0 THEN -1
    ELSE IF Len(b) = 0 THEN 1
    ELSE IF a[1] < b[1] THEN -1
    ELSE IF a[1] > b[1] THEN 1
    ELSE cmp_le(Tail(a), Tail(b))

\* cmp() of two lists of integers: the first differing position decides, then
\* the lengths
RECURSIVE cmp(_, _)
cmp(a, b) ==
    IF Len(a) = 0 /\ Len(b) = 0 THEN 0
    ELSE IF Len(a) = 0 THEN -1
    ELSE IF Len(b) = 0 THEN 1
    ELSE IF a[1] < b[1] THEN -1
    ELSE IF a[1] > b[1] THEN 1
    ELSE cmp(Tail(a), Tail(b))

Trunk == <<"t", "r", "u", "n", "k">>

\* the comparison with "trunk" matched in lower case only
version_cmp_case(version1, version2) ==
    IF version1 = Trunk THEN [exc |-> "none", val |-> 1]
    ELSE IF version2 = Trunk THEN [exc |-> "none", val |-> -1]
    ELSE LET t1 == tup(version1)
             t2 == tup(version2)
         IN  IF t1.exc # "none" THEN [exc |-> t1.exc, val |-> 0]
             ELSE IF t2.exc # "none" THEN [exc |-> t2.exc, val |-> 0]
             ELSE [exc |-> "none", val |-> cmp(t1.val, t2.val)]

version_cmp(version1, version2) ==
    IF lower(version1) = Trunk THEN [exc |-> "none", val |-> 1]
    ELSE IF lower(version2) = Trunk THEN [exc |-> "none", val |-> -1]
    ELSE LET t1 == tup(version1)
             t2 == tup(version2)
         IN  IF t1.exc # "none" THEN [exc |-> t1.exc, val |-> 0]
             ELSE IF t2.exc # "none" THEN [exc |-> t2.exc, val |-> 0]
             ELSE [exc |-> "none", val |-> cmp(t1.val, t2.val)]

---------------------------------------------------------------------------
(* _PlecostBase.__init__, PlecostWordPressInfo.__init__,                   *)
(* PlecostPluginInfo.__init__                                              *)

\* A constructor's outcome: the exception raised ("none": an object was
\* returned) and the object's _outdated ("True", "False", "None"; "unset" when
\* no object was returned).
Raised(e) == [exc |-> e, outdated |-> "unset"]
Built(o)  == [exc |-> "none", outdated |-> o]

\* outdated also when the two versions compare equal
PlecostBase_init_le(v1, v2) ==
    IF v1 = None \/ v1 = None THEN Built("False")
    ELSE IF ~isinstance_basestring(v1) THEN Raised("TypeError")
    ELSE IF ~isinstance_basestring(v2) THEN Raised("TypeError")
    ELSE LET c == version_cmp(v1.s, v2.s)
         IN  IF c.exc # "none" THEN Raised(c.exc)
             ELSE IF c.val # 1 THEN Built("True")
             ELSE Built("False")

PlecostBase_init(v1, v2) ==
    IF v1 = None \/ v1 = None THEN Built("False")
    ELSE IF ~isinstance_basestring(v1) THEN Raised("TypeError")
    ELSE IF ~isinstance_basestring(v2) THEN Raised("TypeError")
    ELSE LET c == version_cmp(v1.s, v2.s)
         IN  IF c.exc # "none" THEN Raised(c.exc)
             ELSE IF c.val = -1 THEN Built("True")
             ELSE Built("False")

PlecostWordPressInfo_init(current_version, last_version) ==
    IF ~isinstance_basestring(current_version) THEN Raised("TypeError")
    ELSE IF ~isinstance_basestring(last_version) THEN Raised("TypeError")
    ELSE PlecostBase_init(current_version, last_version)

PlecostPluginInfo_init(plugin_uri, current_version, last_version) ==
    IF ~isinstance_basestring(plugin_uri) THEN Raised("TypeError")
    ELSE PlecostBase_init(current_version, last_version)

---------------------------------------------------------------------------
(* Versioned entities: the inputs and the calls *)

MaxComps == 2

Components == {<<"0">>, <<"2">>, <<"1", "0">>}

RECURSIVE Dotted(_)
\* the strings of exactly n components joined by "."
Dotted(n) ==
    IF n = 1 THEN Components
    ELSE {d \o <<".">> \o c : d \in Dotted(n - 1), c \in Components}

DottedVersions == UNION {Dotted(n) : n \in 1..MaxComps}

ExtraVersions ==
    { <<"1", ".", "2", ".", "3">>,
      <<"1", ".", "3", ".", "0">>,
      <<"2", ".", "0", ".", "0", ".", "0">>,
      <<"2", ".", "0", ".", "0", ".", "2">>,
      <<"2", ".", "0", ".", "0", ".", "0", ".", "1", "0">>,
      <<"0", "2">>,
      <<"t", "r", "u", "n", "k">>,
      <<"T", "R", "U", "N", "K">>,
      <<"T", "r", "u", "n", "k">>,
      <<"t", "r", "u", "n", "k", "s">>,
      <<"1", ".", "2", "-", "b", "e", "t", "a">>,
      <<"2", ".", "0", ".", "0", ".", "0", ".", "b">>,
      <<>>,
      <<"2", ".">>,
      <<"2", ".", ".", "0">>,
      <<"-", "2">>,
      <<" ", "2">> }

VersionStrings == DottedVersions \cup ExtraVersions

VersionValues ==
    {PyStr(s) : s \in VersionStrings} \cup {None, PyInt(<<"2">>)}

UriValues == {PyStr(<<"u">>), None}

NoOutcome == [exc |-> "none", val |-> 0, outdated |-> "unset", uri |-> None]

InitVersion ==
    /\ ver1 \in VersionValues
    /\ ver2 \in VersionValues
    /\ vop = "none"
    /\ vout = NoOutcome
    /\ kwargs = <<>> /\ wordlists = {} /\ existing = {} /\ oout = <<>>
    /\ lists = <<>> /\ res = <<>> /\ op = "none"

\* a direct call of __version_cmp; its callers pass it two str
CallVersionCmp ==
    /\ isinstance_basestring(ver1)
    /\ isinstance_basestring(ver2)
    /\ LET c == version_cmp(ver1.s, ver2.s)
       IN  vout' = [exc |-> c.exc, val |-> c.val, outdated |-> "unset", uri |-> None]
    /\ vop' = "version_cmp"
    /\ UNCHANGED <<ver1, ver2, optionVars, resultVars>>

NewWordPressInfo ==
    /\ LET r == PlecostWordPressInfo_init(ver1, ver2)
       IN  vout' = [exc |-> r.exc, val |-> 0, outdated |-> r.outdated, uri |-> None]
    /\ vop' = "PlecostWordPressInfo"
    /\ UNCHANGED <<ver1, ver2, optionVars, resultVars>>

NewPluginInfo(plugin_uri) ==
    /\ LET r == PlecostPluginInfo_init(plugin_uri, ver1, ver2)
       IN  vout' = [exc |-> r.exc, val |-> 0, outdated |-> r.outdated, uri |-> plugin_uri]
    /\ vop' = "PlecostPluginInfo"
    /\ UNCHANGED <<ver1, ver2, optionVars, resultVars>>

NextVersion ==
    \/ CallVersionCmp
    \/ NewWordPressInfo
    \/ \E u \in UriValues : NewPluginInfo(u)

SpecVersion == InitVersion /\ [][NextVersion]_vars

---------------------------------------------------------------------------
(* The specification's reading of a version string, stated without the     *)
(* code's split/int: components are located by counting the dots before    *)
(* each position, and a numeral is valued by its powers of ten.            *)

DotsBefore(s, p) == Cardinality({q \in 1..(p - 1) : s[q] = "."})

NComp(s) == Cardinality({q \in 1..Len(s) : s[q] = "."}) + 1

\* the positions of the k-th component's characters
CompPos(s, k) == {p \in 1..Len(s) : s[p] # "." /\ DotsBefore(s, p) = k - 1}

IsNumeralAt(s, k) ==
    /\ CompPos(s, k) # {}
    /\ \A p \in CompPos(s, k) : s[p] \in {"0", "1", "2", "3", "4", "5", "6", "7", "8", "9"}

\* a component int() accepts although it is no plain numeral: a sign, blanks
IsSignedAt(s, k) ==
    LET ps == {p \in CompPos(s, k) : s[p] # " "}
    IN  /\ ps # {}
        /\ \A p \in CompPos(s, k) : s[p] = " " =>
               (\A q \in ps : q < p) \/ (\A q \in ps : q > p)
        /\ \E f \in ps : /\ \A q \in ps : f <= q
                         /\ s[f] \in {"+", "-", "0", "1", "2", "3", "4", "5", "6", "7", "8", "9"}
                         /\ \A q \in ps \ {f} :
                                s[q] \in {"0", "1", "2", "3", "4", "5", "6", "7", "8", "9"}
                         /\ (s[f] \in {"+", "-"} => ps # {f})

RECURSIVE Pow10(_)
Pow10(n) == IF n = 0 THEN 1 ELSE 10 * Pow10(n - 1)

RECURSIVE SumOver(_, _, _)
SumOver(s, ps, hi) ==
    IF ps = {} THEN 0
    ELSE LET p == CHOOSE q \in ps : TRUE
         IN  DigitVal(s[p]) * Pow10(hi - p) + SumOver(s, ps \ {p}, hi)

NumeralAt(s, k) ==
    LET ps == CompPos(s, k)
        hi == CHOOSE q \in ps : \A r \in ps : r <= q
    IN  SumOver(s, ps, hi)

IsTrunk(s) ==
    /\ Len(s) = 5
    /\ s[1] \in {"t", "T"} /\ s[2] \in {"r", "R"} /\ s[3] \in {"u", "U"}
    /\ s[4] \in {"n", "N"} /\ s[5] \in {"k", "K"}

\* a dot-separated sequence of non-negative integers
IsDottedVersion(s) == \A k \in 1..NComp(s) : IsNumeralAt(s, k)

IsValidVersion(v) ==
    isinstance_basestring(v) /\ (IsTrunk(v.s) \/ IsDottedVersion(v.s))

FourTuple(s) ==
    [k \in 1..4 |-> IF k <= NComp(s) THEN NumeralAt(s, k) ELSE 0]

Lexicographic(a, b) ==
    IF a = b THEN "equal"
    ELSE LET k == CHOOSE i \in 1..4 : a[i] # b[i] /\ \A j \in 1..(i - 1) : a[j] = b[j]
         IN  IF a[k] < b[k] THEN "less" ELSE "greater"

Ordering(c) == IF c = -1 THEN "less" ELSE IF c = 0 THEN "equal" ELSE "greater"

Compare(a, b) ==
    IF IsTrunk(a) THEN "greater"
    ELSE IF IsTrunk(b) THEN "less"
    ELSE Lexicographic(FourTuple(a), FourTuple(b))

\* one of the first four components is non-empty and no number
HasMalformedComponent(s) ==
    \E k \in 1..NComp(s) :
        k <= 4 /\ CompPos(s, k) # {} /\ ~IsNumeralAt(s, k) /\ ~IsSignedAt(s, k)

EntityBuilt ==
    /\ vop \in {"PlecostWordPressInfo", "PlecostPluginInfo"}
    /\ vop = "PlecostPluginInfo" => isinstance_basestring(vout.uri)

V(s) == PyStr(s)

---------------------------------------------------------------------------
(* Claims about the versioned entities and the comparison *)

\* C2: an entity built from two valid version strings is outdated exactly
\* when the current version orders strictly before the latest one.
C2_OutdatedIffLess ==
    (EntityBuilt /\ IsValidVersion(ver1) /\ IsValidVersion(ver2)) =>
        /\ vout.exc = "none"
        /\ vout.outdated \in {"True", "False"}
        /\ (vout.outdated = "True") <=> (Compare(ver1.s, ver2.s) = "less")

C2_Witness ==
    /\ vop = "PlecostPluginInfo"
    /\ isinstance_basestring(vout.uri)
    /\ ver1 = V(<<"1", ".", "2", ".", "3">>)
    /\ ver2 = V(<<"1", ".", "3", ".", "0">>)
    /\ vout.outdated = "True"

\* C3: a plugin built with a valid uri and the current or the latest version
\* absent is built, and its is_outdated is None (unknown).
C3_AbsentVersionIsUnknown ==
    (/\ vop = "PlecostPluginInfo"
     /\ isinstance_basestring(vout.uri)
     /\ ver1 = None \/ IsValidVersion(ver1)
     /\ ver2 = None \/ IsValidVersion(ver2)
     /\ ver1 = None \/ ver2 = None) =>
        (vout.exc = "none" /\ vout.outdated = "None")

\* C4: for two dotted versions the comparison is the lexicographic order of
\* their four-component integer tuples (missing components are 0).
C4_FourTupleOrder ==
    (/\ vop = "version_cmp"
     /\ IsDottedVersion(ver1.s)
     /\ IsDottedVersion(ver2.s)) =>
        /\ vout.exc = "none"
        /\ Ordering(vout.val) = Lexicographic(FourTuple(ver1.s), FourTuple(ver2.s))

C4_Witness ==
    /\ vop = "version_cmp"
    /\ ver1 = V(<<"2", ".", "0">>)
    /\ ver2 = V(<<"2", ".", "0", ".", "0", ".", "0">>)
    /\ vout.exc = "none"
    /\ vout.val = 0

\* C5: "trunk" in any letter case is the maximum: greater as the first
\* argument whatever the second is, less as the second argument when the
\* first is not "trunk".
C5_TrunkIsMaximum ==
    (vop = "version_cmp") =>
        /\ IsTrunk(ver1.s) => (vout.exc = "none" /\ vout.val = 1)
        /\ (~IsTrunk(ver1.s) /\ IsTrunk(ver2.s)) => (vout.exc = "none" /\ vout.val = -1)

C5_Witness ==
    /\ vop = "version_cmp"
    /\ ver1 = V(<<"T", "R", "U", "N", "K">>)
    /\ ver2 = V(<<"1", ".", "2", "-", "b", "e", "t", "a">>)
    /\ vout.val = 1

\* C6: for valid versions that are not both "trunk", comparing in the other
\* direction gives the inverse ordering.
C6_Antisymmetry ==
    (/\ vop = "version_cmp"
     /\ IsValidVersion(ver1)
     /\ IsValidVersion(ver2)
     /\ ~(IsTrunk(ver1.s) /\ IsTrunk(ver2.s))) =>
        LET back == version_cmp(ver2.s, ver1.s)
        IN  /\ vout.exc = "none"
            /\ back.exc = "none"
            /\ (vout.val = -1) <=> (back.val = 1)
            /\ (vout.val = 0) <=> (back.val = 0)

C6_Witness ==
    /\ vop = "version_cmp"
    /\ ver1 = V(<<"1", "0">>)
    /\ IsTrunk(ver2.s)
    /\ vout.val = -1

MalformedCall ==
    /\ vop = "version_cmp" \/ EntityBuilt
    /\ isinstance_basestring(ver1)
    /\ isinstance_basestring(ver2)
    /\ ~IsTrunk(ver1.s)
    /\ ~IsTrunk(ver2.s)
    /\ HasMalformedComponent(ver1.s) \/ HasMalformedComponent(ver2.s)

\* C8 (as stated): a malformed component among the first four fails with
\* VersionParseError, and no entity is returned.
C8_VersionParseError ==
    MalformedCall => (vout.exc = "VersionParseError" /\ vout.outdated = "unset")

\* C8 (amended): a malformed component among the first four fails with the
\* ValueError of int(), and no entity is returned.
C8_ValueError ==
    MalformedCall => (vout.exc = "ValueError" /\ vout.outdated = "unset")

C8_Witness ==
    /\ vop = "PlecostPluginInfo"
    /\ isinstance_basestring(vout.uri)
    /\ ver1 = V(<<"1", ".", "2", "-", "b", "e", "t", "a">>)
    /\ ver2 = V(<<"2", ".", "0">>)
    /\ vout.exc = "ValueError"

---------------------------------------------------------------------------
(* PlecostOptions.__init__ *)

\* a keyword the caller did not pass
Absent == [t |-> "absent", s |-> <<>>]
Unset  == [t |-> "unset", s |-> <<>>]

Function(name) == [t |-> "function", s |-> <<name>>]
stdout_write == Function("stdout.write")
EmptyDict == [t |-> "dict", s |-> <<>>]
True == [t |-> "bool", s |-> <<"True">>]

isinstance_int(v) == v.t = "int"

\* kwargs.get(key, default)
get(kw, key, default) == IF kw[key] = Absent THEN default ELSE kw[key]

\* the folder of the embedded word lists
get_data_folder == <<"plecost/resources">>

\* os.path.join of a folder and a relative name
join(folder, name) == folder \o <<"/">> \o name

DefaultWordlist == <<"plugin_list_200.txt">>

Http == <<"h", "t", "t", "p">>
HttpPrefix == <<"h", "t", "t", "p", ":", "/", "/">>

\* the checks without the one of the concurrency
CheckTypes_no_concurrency(target, concurrency, log_function, verbosity) ==
    IF ~isinstance_basestring(target) THEN "TypeError"
    ELSE IF log_function = None THEN "TypeError"
    ELSE IF ~isinstance_int(verbosity) THEN "TypeError"
    ELSE "none"

\* "Check types and default values": the first failing check raises
CheckTypes(target, concurrency, log_function, verbosity) ==
    IF ~isinstance_basestring(target) THEN "TypeError"
    ELSE IF ~isinstance_int(concurrency) THEN "TypeError"
    ELSE IF log_function = None THEN "TypeError"
    ELSE IF ~isinstance_int(verbosity) THEN "TypeError"
    ELSE "none"

\* "Fix target"
FixTarget(target) ==
    IF ~startswith(target.s, Http) THEN PyStr(HttpPrefix \o target.s) ELSE target

\* the resolution with the existence check made first
ResolveWordlist_exists_first(wordlist, wl, ex) ==
    IF wordlist = None
    THEN [exc |-> "none", wordlist |-> PyStr(join(get_data_folder, DefaultWordlist))]
    ELSE IF wordlist.s \notin ex
    THEN [exc |-> "PlecostWordListNotFound", wordlist |-> Unset]
    ELSE IF wordlist.s \in wl
    THEN [exc |-> "none", wordlist |-> PyStr(join(get_data_folder, wordlist.s))]
    ELSE [exc |-> "none", wordlist |-> wordlist]

\* "Check word list and fix word list path"; wl is what list_wordlists()
\* returns and ex the paths for which exists() is true
ResolveWordlist(wordlist, wl, ex) ==
    IF wordlist # None /\ wordlist.s \in wl
    THEN [exc |-> "none", wordlist |-> PyStr(join(get_data_folder, wordlist.s))]
    ELSE IF wordlist = None
    THEN [exc |-> "none", wordlist |-> PyStr(join(get_data_folder, DefaultWordlist))]
    ELSE IF wordlist.s \notin ex
    THEN [exc |-> "PlecostWordListNotFound", wordlist |-> Unset]
    ELSE [exc |-> "none", wordlist |-> wordlist]

OptionsRaised(e) ==
    [exc |-> e, proxy |-> Unset, target |-> Unset, verbosity |-> Unset,
     concurrency |-> Unset, report_filename |-> Unset, log_function |-> Unset,
     colorize |-> Unset, wordlist |-> Unset]

PlecostOptions_init(kw, wl, ex) ==
    LET proxy           == get(kw, "proxy", EmptyDict)
        target          == get(kw, "target", None)
        verbosity       == get(kw, "verbosity", PyInt(<<"0">>))
        concurrency     == get(kw, "concurrency", PyInt(<<"4">>))
        report_filename == get(kw, "report", None)
        log_function    == get(kw, "log_function", stdout_write)
        colorize        == get(kw, "colorize", True)
        wordlist        == get(kw, "wordlist", None)
        types           == CheckTypes(target, concurrency, log_function, verbosity)
        resolved        == ResolveWordlist(wordlist, wl, ex)
    IN  IF types # "none" THEN OptionsRaised(types)
        ELSE IF resolved.exc # "none" THEN OptionsRaised(resolved.exc)
        ELSE [exc |-> "none", proxy |-> proxy, target |-> FixTarget(target),
              verbosity |-> verbosity, concurrency |-> concurrency,
              report_filename |-> report_filename, log_function |-> log_function,
              colorize |-> colorize, wordlist |-> resolved.wordlist]

---------------------------------------------------------------------------
(* PlecostOptions: the inputs and the call *)

EmbeddedNames == {<<"plugin_list_10.txt">>, <<"plugin_list_200.txt">>}

ExternalPaths == {<<"plugin_list_10.txt">>, <<"my.txt">>}

TargetValues ==
    {Absent, PyInt(<<"8">>), PyStr(<<"t">>),
     PyStr(<<"h", "t", "t", "p", ":", "/", "/", "t">>)}

ConcurrencyValues == {Absent, PyInt(<<"8">>), PyStr(<<"8">>)}

LogFunctionValues == {Absent, None, Function("log")}

VerbosityValues == {Absent, PyInt(<<"1">>), PyStr(<<"v">>)}

WordlistValues ==
    {Absent, None} \cup {PyStr(n) : n \in EmbeddedNames \cup ExternalPaths}

NotCalled == OptionsRaised("notcalled")

InitOptions ==
    /\ kwargs \in [proxy : {Absent}, report : {Absent}, colorize : {Absent},
                   target : TargetValues, concurrency : ConcurrencyValues,
                   log_function : LogFunctionValues, verbosity : VerbosityValues,
                   wordlist : WordlistValues]
    /\ wordlists \in SUBSET EmbeddedNames
    /\ existing \in SUBSET ExternalPaths
    /\ oout = NotCalled
    /\ ver1 = None /\ ver2 = None /\ vop = "none" /\ vout = NoOutcome
    /\ lists = <<>> /\ res = <<>> /\ op = "none"

NewOptions ==
    /\ oout' = PlecostOptions_init(kwargs, wordlists, existing)
    /\ UNCHANGED <<kwargs, wordlists, existing, versionVars, resultVars>>

NextOptions == NewOptions

SpecOptions == InitOptions /\ [][NextOptions]_vars

---------------------------------------------------------------------------
(* Claims about PlecostOptions *)

OptionsCalled == oout.exc # "notcalled"

OptionsFailed(e) == oout = OptionsRaised(e)

BadTarget == kwargs.target = Absent \/ ~isinstance_basestring(kwargs.target)

BadConcurrency == kwargs.concurrency # Absent /\ ~isinstance_int(kwargs.concurrency)

BadVerbosity == kwargs.verbosity # Absent /\ ~isinstance_int(kwargs.verbosity)

Resolvable ==
    \/ kwargs.wordlist \in {Absent, None}
    \/ kwargs.wordlist.s \in wordlists
    \/ kwargs.wordlist.s \in existing

\* C7 (as stated): the call fails with the type error when the target is
\* missing or no string, the concurrency is no integer or log_function is
\* absent from the options (not passed, or passed as None); in every other
\* case with a resolvable word list it succeeds.
C7_FailsOnAbsentLogFunction ==
    OptionsCalled =>
        LET bad == BadTarget \/ BadConcurrency \/ kwargs.log_function \in {Absent, None}
        IN  /\ bad => OptionsFailed("TypeError")
            /\ (~bad /\ Resolvable) => oout.exc = "none"

\* C7 (amended): the call fails with TypeError when the target is missing or
\* no string, the concurrency is no integer, log_function is passed as None
\* or the verbosity is no integer; an absent log_function defaults to
\* stdout.write; in every other case with a resolvable word list it succeeds.
C7_FailsOnNoneLogFunction ==
    OptionsCalled =>
        LET bad == \/ BadTarget
                   \/ BadConcurrency
                   \/ kwargs.log_function = None
                   \/ BadVerbosity
        IN  /\ bad => OptionsFailed("TypeError")
            /\ (~bad /\ Resolvable) =>
                   /\ oout.exc = "none"
                   /\ kwargs.log_function = Absent => oout.log_function = stdout_write

C7_Witness ==
    /\ OptionsCalled
    /\ kwargs.log_function = Absent
    /\ kwargs.concurrency = Absent
    /\ oout.exc = "none"
    /\ oout.log_function = stdout_write

OtherwiseValid ==
    /\ OptionsCalled
    /\ ~BadTarget /\ ~BadConcurrency /\ ~BadVerbosity
    /\ kwargs.log_function # None

---------------------------------------------------------------------------
(* PlecostResults *)

\* A PlecostPluginInfo object: its fields and the _outdated its constructor set
PluginObject(plugin_uri, current_version, last_version, outdated) ==
    [t |-> "PlecostPluginInfo", uri |-> plugin_uri,
     current_version |-> current_version, last_version |-> last_version,
     outdated |-> outdated]

\* a list item that is no PlecostPluginInfo
StrItem ==
    [t |-> "str", uri |-> None, current_version |-> None, last_version |-> None,
     outdated |-> "unset"]

WordPressObject == [t |-> "PlecostWordPressInfo", s |-> <<>>]

\* a reference to a list object; lists maps it to the list's items
ListRef(id) == [t |-> "list", s |-> <<id>>]

isinstance_list(v) == v.t = "list"

\* the filter with each outdated plugin inserted at the front
RECURSIVE FilterOutdated_front(_)
FilterOutdated_front(plugins) ==
    IF Len(plugins) = 0 THEN <<>>
    ELSE LET last == plugins[Len(plugins)]
             init == FilterOutdated_front(SubSeq(plugins, 1, Len(plugins) - 1))
         IN  IF last.outdated = "True" THEN <<last>> \o init ELSE init

\* "Filter outdated plugins": the loop appends, in order, each plugin whose
\* is_outdated is True
RECURSIVE FilterOutdated(_)
FilterOutdated(plugins) ==
    IF Len(plugins) = 0 THEN <<>>
    ELSE LET last == plugins[Len(plugins)]
             init == FilterOutdated(SubSeq(plugins, 1, Len(plugins) - 1))
         IN  IF last.outdated = "True" THEN Append(init, last) ELSE init

ResultsRaised(e) ==
    [exc |-> e, target |-> Unset, wordpress_info |-> Unset, plugins |-> Unset,
     outdated_plugins |-> Unset]

\* the constructor's outcome: the object (or the exception) and the items of
\* the list it creates for the outdated plugins
PlecostResults_init(target, wordpress_info, plugins, heap) ==
    IF ~isinstance_basestring(target) THEN [obj |-> ResultsRaised("TypeError"), created |-> <<>>]
    ELSE IF wordpress_info.t # "PlecostWordPressInfo"
    THEN [obj |-> ResultsRaised("TypeError"), created |-> <<>>]
    ELSE IF ~isinstance_list(plugins) THEN [obj |-> ResultsRaised("TypeError"), created |-> <<>>]
    ELSE IF \E i \in 1..Len(heap[plugins.s[1]]) : heap[plugins.s[1]][i].t # "PlecostPluginInfo"
    THEN [obj |-> ResultsRaised("TypeError"), created |-> <<>>]
    ELSE [obj |-> [exc |-> "none", target |-> target, wordpress_info |-> wordpress_info,
                   plugins |-> plugins, outdated_plugins |-> ListRef("outdated")],
          created |-> FilterOutdated(heap[plugins.s[1]])]

\* the property PlecostResults.plugins
Results_plugins(r, heap) == heap[r.plugins.s[1]]

\* outdated_plugins computed from plugins at each read
Results_outdated_plugins_recomputed(r, heap) == FilterOutdated(heap[r.plugins.s[1]])

\* the property PlecostResults.outdated_plugins
Results_outdated_plugins(r, heap) == heap[r.outdated_plugins.s[1]]

---------------------------------------------------------------------------
(* PlecostResults: the caller's list, the calls *)

MaxPlugins == 3

\* the plugins the caller builds: <<plugin_uri, current_version, last_version>>
PluginInputs ==
    { <<PyStr(<<"a">>), PyStr(<<"1", ".", "0">>), PyStr(<<"2", ".", "0">>)>>,
      <<PyStr(<<"b">>), PyStr(<<"1", ".", "0">>), PyStr(<<"2", ".", "0">>)>>,
      <<PyStr(<<"a">>), PyStr(<<"2", ".", "0">>), PyStr(<<"2", ".", "0">>)>>,
      <<PyStr(<<"a">>), None, PyStr(<<"2", ".", "0">>)>> }

\* the arguments of the constructor: <<target, wordpress_info, plugins>>
ResultsInputs ==
    { <<PyStr(<<"t">>), WordPressObject, ListRef("caller")>>,
      <<None, WordPressObject, ListRef("caller")>>,
      <<PyStr(<<"t">>), None, ListRef("caller")>>,
      <<PyStr(<<"t">>), WordPressObject, None>> }

NotBuilt == ResultsRaised("notcalled")

Init ==
    /\ lists = [id \in {"caller", "outdated"} |-> <<>>]
    /\ res = NotBuilt
    /\ op = "none"
    /\ ver1 = None /\ ver2 = None /\ vop = "none" /\ vout = NoOutcome
    /\ kwargs = <<>> /\ wordlists = {} /\ existing = {} /\ oout = <<>>

\* the caller builds a plugin and appends it to its list
CallerAppend(plugin_uri, current_version, last_version) ==
    LET r == PlecostPluginInfo_init(plugin_uri, current_version, last_version)
    IN  /\ Len(lists["caller"]) < MaxPlugins
        /\ r.exc = "none"
        /\ lists' = [lists EXCEPT !["caller"] =
                        Append(@, PluginObject(plugin_uri, current_version,
                                               last_version, r.outdated))]
        /\ op' = "append"
        /\ UNCHANGED <<res, versionVars, optionVars>>

\* the caller appends something that is no plugin
CallerAppendOther ==
    /\ Len(lists["caller"]) < MaxPlugins
    /\ lists' = [lists EXCEPT !["caller"] = Append(@, StrItem)]
    /\ op' = "append"
    /\ UNCHANGED <<res, versionVars, optionVars>>

\* the caller removes the i-th item of its list
CallerRemove(i) ==
    /\ i \in 1..Len(lists["caller"])
    /\ lists' = [lists EXCEPT !["caller"] =
                    SubSeq(@, 1, i - 1) \o SubSeq(@, i + 1, Len(@))]
    /\ op' = "remove"
    /\ UNCHANGED <<res, versionVars, optionVars>>

NewResults(target, wordpress_info, plugins) ==
    LET r == PlecostResults_init(target, wordpress_info, plugins, lists)
    IN  /\ res' = r.obj
        /\ lists' = IF r.obj.exc = "none"
                    THEN [lists EXCEPT !["outdated"] = r.created]
                    ELSE lists
        /\ op' = "results"
        /\ UNCHANGED <<versionVars, optionVars>>

Next ==
    \/ \E a \in PluginInputs : CallerAppend(a[1], a[2], a[3])
    \/ CallerAppendOther
    \/ \E i \in 1..MaxPlugins : CallerRemove(i)
    \/ \E a \in ResultsInputs : NewResults(a[1], a[2], a[3])

Spec == Init /\ [][Next]_vars

---------------------------------------------------------------------------
(* Claims about PlecostResults *)

ResultsBuilt == res.exc = "none"

\* out is the subsequence of pl made of the entries whose is_outdated is True
IsOutdatedSubsequence(out, pl) ==
    \E f \in [1..Len(out) -> 1..Len(pl)] :
        /\ \A i, j \in 1..Len(out) : i < j => f[i] < f[j]
        /\ \A i \in 1..Len(out) : out[i] = pl[f[i]]
        /\ {f[i] : i \in 1..Len(out)} = {j \in 1..Len(pl) : pl[j].outdated = "True"}

\* C1: right after a successful construction, outdated_plugins is exactly the
\* subsequence of plugins whose is_outdated is True, in the same relative order.
C1_OutdatedSubsequence ==
    (op = "results" /\ ResultsBuilt) =>
        IsOutdatedSubsequence(Results_outdated_plugins(res, lists),
                              Results_plugins(res, lists))

C1_Witness ==
    /\ op = "results"
    /\ ResultsBuilt
    /\ Len(Results_plugins(res, lists)) = 3
    /\ Results_plugins(res, lists)[1].outdated = "True"
    /\ Results_plugins(res, lists)[2].outdated = "False"
    /\ Results_plugins(res, lists)[3].outdated = "True"
    /\ Results_plugins(res, lists)[1] # Results_plugins(res, lists)[3]
    /\ Len(Results_outdated_plugins(res, lists)) = 2

\* C10: once the results are built, the caller's appends and removals leave
\* outdated_plugins as it was, while plugins is the caller's own list and
\* shows every change.
C10_OutdatedNeverRecomputed ==
    [][ (ResultsBuilt /\ op' \in {"append", "remove"}) =>
            /\ Results_outdated_plugins(res', lists') = Results_outdated_plugins(res, lists)
            /\ Results_plugins(res', lists') = lists'["caller"]
            /\ Results_plugins(res', lists') # Results_plugins(res, lists) ]_vars

\* the caller removed an outdated plugin: outdated_plugins still holds it
C10_Witness ==
    /\ ResultsBuilt
    /\ op = "remove"
    /\ \E i \in 1..Len(Results_outdated_plugins(res, lists)) :
           \A j \in 1..Len(Results_plugins(res, lists)) :
               Results_plugins(res, lists)[j] # Results_outdated_plugins(res, lists)[i]

=============================================================================
